---- MODULE Spec2Model ----
(***************************************************************************)
(* pricedragon: the ETL pipeline of src/etl/pipeline.py (ProductETL) over  *)
(* the SQLAlchemy session of src/database/connection.py and the tables of  *)
(* src/database/models.py.                                                 *)
(*                                                                         *)
(* Strings are sequences of one-character strings.  Python None is the    *)
(* value PyNone.  Floats are modelled by exact integers and by fractions   *)
(* [num, den] where the code divides.                                      *)
(***************************************************************************)
EXTENDS Integers, Sequences, FiniteSets, TLC

\* ------------------------------------------------------------------ bounds
\* The most pipeline runs (process_scraper_results calls) of a behaviour.
MaxRuns == 2
\* The most raw records of a behaviour, over all its batches.
MaxObs == 3
\* The longest name given to _normalize_name on its own.
MaxNameLen == 3
\* The most records of a batch given to DataLoader or DatabaseManager.
MaxBatch == 3

\* ----------------------------------------------------------------- strings
PyNone == "<None>"

UpperChars == <<"A","B","C","D","E","F","G","H","I","J","K","L","M",
                "N","O","P","Q","R","S","T","U","V","W","X","Y","Z">>

LowerChars == <<"a","b","c","d","e","f","g","h","i","j","k","l","m",
                "n","o","p","q","r","s","t","u","v","w","x","y","z">>

Digits == {"0","1","2","3","4","5","6","7","8","9"}

\* The whitespace characters of the inputs (\s of the regular expressions).
Whitespace == {" ", "\t"}

\* Ideographs of the inputs, each written as its code point: \w matches them
\* and so does the range u4e00-u9fff.  u7684, u9650 u6642, u7279 u50f9 and
\* u512a u60e0 spell the noise words of _normalize_name.
CJK == {"u7684", "u9650", "u6642", "u7279", "u50f9", "u512a", "u60e0", "u6a5f"}

LowerChar(c) ==
    IF \E i \in 1..26 : UpperChars[i] = c
    THEN LowerChars[CHOOSE i \in 1..26 : UpperChars[i] = c]
    ELSE c

UpperChar(c) ==
    IF \E i \in 1..26 : LowerChars[i] = c
    THEN UpperChars[CHOOSE i \in 1..26 : LowerChars[i] = c]
    ELSE c

\* str.lower() and str.upper()
Lower(s) == [i \in 1..Len(s) |-> LowerChar(s[i])]

Upper(s) == [i \in 1..Len(s) |-> UpperChar(s[i])]

\* str.title() of a one-word string of letters
Title(s) == [i \in 1..Len(s) |-> IF i = 1 THEN UpperChar(s[i]) ELSE LowerChar(s[i])]

\* w in s (substring test)
Contains(s, w) ==
    \E i \in 0..(Len(s) - Len(w)) : SubSeq(s, i + 1, i + Len(w)) = w

\* s.replace(w, ' '): the non-overlapping occurrences of w, left to right
RECURSIVE ReplaceBySpace(_, _)
ReplaceBySpace(s, w) ==
    IF Len(s) < Len(w) \/ Len(w) = 0 THEN s
    ELSE IF SubSeq(s, 1, Len(w)) = w
         THEN <<" ">> \o ReplaceBySpace(SubSeq(s, Len(w) + 1, Len(s)), w)
         ELSE <<s[1]>> \o ReplaceBySpace(Tail(s), w)

\* re.sub(r'\s+', ' ', s)
RECURSIVE CollapseWhitespace(_)
CollapseWhitespace(s) ==
    IF s = <<>> THEN <<>>
    ELSE IF s[1] \in Whitespace
         THEN IF Len(s) > 1 /\ s[2] \in Whitespace
              THEN CollapseWhitespace(Tail(s))
              ELSE <<" ">> \o CollapseWhitespace(Tail(s))
         ELSE <<s[1]>> \o CollapseWhitespace(Tail(s))

\* str.strip()
RECURSIVE Strip(_)
Strip(s) ==
    IF s = <<>> THEN <<>>
    ELSE IF s[1] \in Whitespace THEN Strip(Tail(s))
    ELSE IF s[Len(s)] \in Whitespace THEN Strip(SubSeq(s, 1, Len(s) - 1))
    ELSE s

\* The characters the second re.sub of _clean_text keeps:
\* [\w\s\u4e00-\u9fff\-\(\)\[\]\/]
AllowedChar(c) ==
    \/ \E i \in 1..26 : UpperChars[i] = c \/ LowerChars[i] = c
    \/ c \in Digits \/ c = "_"
    \/ c \in Whitespace
    \/ c \in CJK
    \/ c \in {"-", "(", ")", "[", "]", "/"}

TextLimit == 500

\* ProductETL._clean_text
CleanText(text) ==
    IF text = <<>> THEN <<>>
    ELSE LET t1 == Strip(CollapseWhitespace(text))
             t2 == SelectSeq(t1, AllowedChar)
         IN  SubSeq(t2, 1, IF Len(t2) < TextLimit THEN Len(t2) ELSE TextLimit)

\* u3010 and u3011 are the lenticular brackets.
NoiseWords == << <<"u7684">>, <<"u3010">>, <<"u3011">>, <<"(">>, <<")">>, <<"[">>, <<"]">>,
                 <<"u9650","u6642">>, <<"u7279","u50f9">>, <<"u512a","u60e0">> >>

RECURSIVE RemoveNoise(_, _)
RemoveNoise(s, k) ==
    IF k > Len(NoiseWords) THEN s
    ELSE RemoveNoise(ReplaceBySpace(s, NoiseWords[k]), k + 1)

\* NormalizeName with the whitespace normalised before the noise words are
\* replaced.
NormalizeNameNoiseLast(name) == RemoveNoise(Strip(CollapseWhitespace(Lower(name))), 1)

\* ProductETL._normalize_name
NormalizeName(name) == Strip(CollapseWhitespace(RemoveNoise(Lower(name), 1)))

Brands == << <<"A","P","P","L","E">>, <<"S","A","M","S","U","N","G">>, <<"A","S","U","S">>,
             <<"A","C","E","R">>, <<"M","S","I">>, <<"L","E","N","O","V","O">>, <<"H","P">>,
             <<"D","E","L","L">>, <<"S","O","N","Y">>, <<"L","G">>, <<"N","I","K","E">>,
             <<"A","D","I","D","A","S">> >>

\* ProductETL._extract_brand_model, the brand: the first brand of the list
\* that the upper-cased name contains, title-cased; "" when there is none.
ExtractBrand(name) ==
    LET up == Upper(name)
        hits == {k \in 1..Len(Brands) : Contains(up, Brands[k])}
    IN  IF hits = {} THEN <<>>
        ELSE Title(Brands[CHOOSE k \in hits : \A m \in hits : k <= m])

\* ------------------------------------------------------------ similarity
\* The length of the common run of a[i..ahi] and b[j..bhi] from their starts.
RECURSIVE CommonRun(_, _, _, _, _, _)
CommonRun(a, b, i, j, ahi, bhi) ==
    IF i > ahi \/ j > bhi THEN 0
    ELSE IF a[i] # b[j] THEN 0
    ELSE 1 + CommonRun(a, b, i + 1, j + 1, ahi, bhi)

\* difflib.SequenceMatcher.find_longest_match without junk: the longest
\* block common to a[alo..ahi] and b[blo..bhi]; of the longest, the one that
\* starts earliest in a, and of those the one that starts earliest in b.
FindLongestMatch(a, b, alo, ahi, blo, bhi) ==
    LET cand == {<<i, j>> : i \in alo..ahi, j \in blo..bhi}
        size(c) == CommonRun(a, b, c[1], c[2], ahi, bhi)
        best == CHOOSE c \in cand :
                    \A d \in cand :
                        \/ size(c) > size(d)
                        \/ /\ size(c) = size(d)
                           /\ \/ c[1] < d[1]
                              \/ c[1] = d[1] /\ c[2] <= d[2]
    IN  [i |-> best[1], j |-> best[2], k |-> size(best)]

\* The sum of the sizes of difflib's get_matching_blocks: the longest match,
\* then the same to its left and to its right.
RECURSIVE MatchingChars(_, _, _, _, _, _)
MatchingChars(a, b, alo, ahi, blo, bhi) ==
    IF alo > ahi \/ blo > bhi THEN 0
    ELSE LET m == FindLongestMatch(a, b, alo, ahi, blo, bhi)
         IN  IF m.k = 0 THEN 0
             ELSE m.k + MatchingChars(a, b, alo, m.i - 1, blo, m.j - 1)
                      + MatchingChars(a, b, m.i + m.k, ahi, m.j + m.k, bhi)

\* A fraction num/den, den > 0.
Frac(n, d) == [num |-> n, den |-> d]

FracGeq(f, g) == f.num * g.den >= g.num * f.den

FracLess(f, g) == f.num * g.den < g.num * f.den

FracEq(f, g) == f.num * g.den = g.num * f.den

\* SequenceMatcher(None, a, b).ratio(): 2*M/T, and 1.0 when both are empty.
Ratio(a, b) ==
    LET T == Len(a) + Len(b)
    IN  IF T = 0 THEN Frac(1, 1)
        ELSE Frac(2 * MatchingChars(a, b, 1, Len(a), 1, Len(b)), T)

\* BrandSim with a boost of 0.5.
BrandSimHalf(pa, pb) ==
    IF pa.brand # <<>> /\ pb.brand # <<>> /\ Lower(pa.brand) = Lower(pb.brand)
    THEN 5 ELSE 0

\* The brand boost of _calculate_similarity, in tenths.
BrandSim(pa, pb) ==
    IF pa.brand # <<>> /\ pb.brand # <<>> /\ Lower(pa.brand) = Lower(pb.brand)
    THEN 3 ELSE 0

\* The price boost of _calculate_similarity, in tenths: both prices truthy,
\* the larger positive and 1 - |a-b|/max > 0.7.
PriceSim(pa, pb) ==
    LET a == pa.current_price
        b == pb.current_price
        diff == IF a >= b THEN a - b ELSE b - a
        mx == IF a >= b THEN a ELSE b
    IN  IF a # 0 /\ b # 0 /\ mx > 0 /\ 10 * (mx - diff) > 7 * mx THEN 1 ELSE 0

\* ProductETL._calculate_similarity: min(name + brand + price, 1.0)
CalculateSimilarity(pa, pb) ==
    LET r == Ratio(pa.normalized_name, pb.normalized_name)
        n == 10 * r.num + (BrandSim(pa, pb) + PriceSim(pa, pb)) * r.den
        d == 10 * r.den
    IN  IF n > d THEN Frac(d, d) ELSE Frac(n, d)

\* MatchThreshold as 7.
MatchThresholdSeven == Frac(7, 1)

\* The thresholds of _find_product_matches.
MatchThreshold == Frac(7, 10)

ExactThreshold == Frac(9, 10)

\* --------------------------------------------------------------- the store
\* The platforms init_database adds; their ids are the rows' primary keys.
PChome == <<"p","c","h","o","m","e">>

Momo == <<"m","o","m","o">>

Yahoo == <<"y","a","h","o","o">>

Platforms == << PChome, Momo, Yahoo >>

\* ProductETL.platform_cache after _build_caches: the id of the platform of
\* that name, 0 when the cache has none (dict.get gives None).
PlatformCacheGet(name) ==
    IF \E k \in 1..Len(Platforms) : Platforms[k] = name
    THEN CHOOSE k \in 1..Len(Platforms) : Platforms[k] = name
    ELSE 0

\* ------------------------------------------------------------- raw records
\* A raw record is a dict: price_kind and orig_kind say whether the key is
\* there with a number ("num"), is missing ("missing"), or holds a value
\* float() raises on ("invalid": None, a text that is no number), or holds
\* a text float() reads as the number ("numstr").  url, image_url, brand and
\* description say whether the key is there with a non-empty value;
\* availability is the value of that key (True where a record has none).
Raw(platform, pid, name, pk, price, ok, orig) ==
    [platform |-> platform, product_id |-> pid, name |-> name,
     price_kind |-> pk, price |-> price, orig_kind |-> ok, original_price |-> orig,
     availability |-> TRUE, url |-> TRUE, image_url |-> FALSE, brand |-> FALSE,
     description |-> FALSE]

NameHp15 == <<"h","p"," ","1","5">>

NameHP15Bang == <<"H","P"," "," ","1","5","!">>

NameLgTv == <<"l","g"," ","t","v">>

NameShort == <<"a","b","!">>

RawRecords ==
    { [Raw(PChome, "A1", NameHp15, "num", 100, "num", 125) EXCEPT !.image_url = TRUE],
      Raw(Momo, "B1", NameHP15Bang, "num", 100, "missing", 0),
      [Raw(PChome, "A1", NameHp15, "num", 90, "missing", 0) EXCEPT !.availability = FALSE],
      Raw(Momo, "B2", NameLgTv, "num", -5, "num", 10),
      Raw(<<"P","C","h","o","m","e">>, PyNone, NameLgTv, "num", 50, "missing", 0),
      Raw(<<"e","b","a","y">>, "E1", NameHp15, "num", 100, "missing", 0),
      Raw(Momo, "B3", NameShort, "num", 100, "missing", 0),
      Raw(Momo, "B1", NameHp15, "invalid", 0, "missing", 0) }

\* ProductETL._extract_pricing.  raised: float() raised on the price.
ExtractPricing(raw) ==
    LET current == IF raw.price_kind \in {"num", "numstr"} THEN raw.price ELSE 0
        original == IF raw.orig_kind = "num" THEN raw.original_price ELSE current
        discount == IF original > current /\ original > 0
                    THEN Frac((original - current) * 100, original)
                    ELSE Frac(0, 1)
    IN  [raised |-> raw.price_kind = "invalid",
         current_price |-> current, original_price |-> original, discount |-> discount]

\* ------------------------------------------------------------ quality score
\* The checks of _calculate_quality_score.
TotalChecks == 6

\* The checks a raw record passes, in the order of the code.  The name check
\* is on the raw name; the price check compares the raw value with 0.
PassedChecks(raw) ==
    (IF Len(raw.name) > 5 THEN 1 ELSE 0)
    + (IF raw.price_kind = "num" /\ raw.price > 0 THEN 1 ELSE 0)
    + (IF raw.url THEN 1 ELSE 0)
    + (IF raw.image_url THEN 1 ELSE 0)
    + (IF raw.brand THEN 1 ELSE 0)
    + (IF raw.description THEN 1 ELSE 0)

\* round(x, 2) of x = n/d >= 0, in hundredths.  No k/6 lies half-way between
\* two hundredths but 3/6, which is one.
Round2(n, d) == (200 * n + d) \div (2 * d)

\* Round2 that truncates (int(x * 100)).
QualityScoreTruncated(raw) ==
    [raised |-> raw.price_kind \in {"invalid", "numstr"},
     score |-> (100 * PassedChecks(raw)) \div TotalChecks]

\* ProductETL._calculate_quality_score: the score in hundredths.  raised:
\* the comparison of the price with 0 raised TypeError (the value is None
\* or a text, a numeric one too).
CalculateQualityScore(raw) ==
    [raised |-> raw.price_kind \in {"invalid", "numstr"},
     score |-> Round2(PassedChecks(raw), TotalChecks)]

\* FindExisting with the platform filter on the wrong column (Product.id).
FindExistingWrongColumn(products, platform_id, pid) ==
    LET hits == {k \in 1..Len(products) :
                    /\ products[k].id = platform_id
                    /\ products[k].platform_product_id = pid}
    IN  IF hits = {} THEN 0 ELSE CHOOSE k \in hits : \A m \in hits : k <= m

\* ------------------------------------------------------------------ upsert
\* The query of _process_single_product for the product of a platform id
\* and platform product id, .first(): the id of the row, 0 when there is
\* none.  products are the rows the session's transaction sees.
FindExisting(products, platform_id, pid) ==
    LET hits == {k \in 1..Len(products) :
                    /\ products[k].platform_id = platform_id
                    /\ products[k].platform_product_id = pid}
    IN  IF hits = {} THEN 0 ELSE CHOOSE k \in hits : \A m \in hits : k <= m

\* UpdatedProduct without the scrape_count assignment.
UpdatedProductNoCount(existing, name, pricing, raw, now) ==
    [existing EXCEPT !.name = name,
                     !.normalized_name = NormalizeName(name),
                     !.current_price = pricing.current_price,
                     !.original_price = pricing.original_price,
                     !.discount_percentage = pricing.discount,
                     !.is_available = raw.availability,
                     !.last_scraped = now]

\* The assignments to an existing product, at the time now.  There is none
\* to brand, data_quality_score or created_at.
UpdatedProduct(existing, name, pricing, raw, now) ==
    [existing EXCEPT !.name = name,
                     !.normalized_name = NormalizeName(name),
                     !.current_price = pricing.current_price,
                     !.original_price = pricing.original_price,
                     !.discount_percentage = pricing.discount,
                     !.is_available = raw.availability,
                     !.last_scraped = now,
                     !.scrape_count = existing.scrape_count + 1]

\* Product.scrape_count's column default.
ScrapeCountDefault == 1

\* Product(...) of a new product, with the id and the created_at its flush
\* at the time now gives it.
NewProduct(id, name, platform_id, pid, pricing, raw, now) ==
    [id |-> id, name |-> name, normalized_name |-> NormalizeName(name),
     brand |-> ExtractBrand(name),
     platform_id |-> platform_id, platform_product_id |-> pid,
     current_price |-> pricing.current_price,
     original_price |-> pricing.original_price,
     discount_percentage |-> pricing.discount,
     is_available |-> raw.availability,
     data_quality_score |-> CalculateQualityScore(raw).score,
     last_scraped |-> now,
     created_at |-> now,
     scrape_count |-> ScrapeCountDefault]

\* PriceHistoryRow without scrape_session_id (the column is then NULL, 0 here).
PriceHistoryRowNoSession(product_id, platform_id, pricing, session_id) ==
    [product_id |-> product_id, platform_id |-> platform_id,
     price |-> pricing.current_price, original_price |-> pricing.original_price,
     discount_percentage |-> pricing.discount,
     scrape_session_id |-> 0]

\* PriceHistory(...) of an observation.
PriceHistoryRow(product_id, platform_id, pricing, session_id) ==
    [product_id |-> product_id, platform_id |-> platform_id,
     price |-> pricing.current_price, original_price |-> pricing.original_price,
     discount_percentage |-> pricing.discount,
     scrape_session_id |-> session_id]

\* The shortest cleaned name _process_single_product accepts.
MinNameLen == 3

\* ProcessSingleProduct without the test of the name's length.
ProcessSingleProductNoNameCheck(products, active, session_id, raw, now) ==
    LET name == CleanText(raw.name)
        platform_id == PlatformCacheGet(Lower(raw.platform))
        pricing == ExtractPricing(raw)
        existing == FindExisting(products, platform_id, raw.product_id)
        id == IF existing # 0 THEN existing ELSE Len(products) + 1
        none == [kind |-> "none", id |-> 0, products |-> products, history |-> <<>>]
    IN  IF platform_id = 0 THEN none
        ELSE IF pricing.raised \/ ~active THEN [none EXCEPT !.kind = "raise"]
        ELSE IF existing = 0 /\ CalculateQualityScore(raw).raised
             THEN [none EXCEPT !.kind = "raise"]
        ELSE IF existing = 0 /\ raw.product_id = PyNone
             THEN [none EXCEPT !.kind = "flushfail"]
        ELSE [kind |-> IF existing # 0 THEN "update" ELSE "insert",
              id |-> id,
              products |->
                  IF existing # 0
                  THEN [products EXCEPT
                           ![id] = UpdatedProduct(products[id], name, pricing, raw, now)]
                  ELSE Append(products,
                              NewProduct(id, name, platform_id, raw.product_id,
                                         pricing, raw, now)),
              history |-> << PriceHistoryRow(id, platform_id, pricing, session_id) >>]

\* ProductETL._process_single_product on one raw record, as what it does:
\*   "none"      returned None (name too short, unknown platform)
\*   "raise"     raised before any write (float() on the price, a query on
\*               a session whose transaction a failed flush rolled back, or
\*               the quality score of a new product)
\*   "flushfail" db.flush() of the new product raised IntegrityError: the
\*               product id is None and platform_product_id is NOT NULL
\*   "update", "insert"   the product was written and its history row added
ProcessSingleProduct(products, active, session_id, raw, now) ==
    LET name == CleanText(raw.name)
        platform_id == PlatformCacheGet(Lower(raw.platform))
        pricing == ExtractPricing(raw)
        existing == FindExisting(products, platform_id, raw.product_id)
        id == IF existing # 0 THEN existing ELSE Len(products) + 1
        none == [kind |-> "none", id |-> 0, products |-> products, history |-> <<>>]
    IN  IF Len(name) < MinNameLen THEN none
        ELSE IF platform_id = 0 THEN none
        ELSE IF pricing.raised \/ ~active THEN [none EXCEPT !.kind = "raise"]
        ELSE IF existing = 0 /\ CalculateQualityScore(raw).raised
             THEN [none EXCEPT !.kind = "raise"]
        ELSE IF existing = 0 /\ raw.product_id = PyNone
             THEN [none EXCEPT !.kind = "flushfail"]
        ELSE [kind |-> IF existing # 0 THEN "update" ELSE "insert",
              id |-> id,
              products |->
                  IF existing # 0
                  THEN [products EXCEPT
                           ![id] = UpdatedProduct(products[id], name, pricing, raw, now)]
                  ELSE Append(products,
                              NewProduct(id, name, platform_id, raw.product_id,
                                         pricing, raw, now)),
              history |-> << PriceHistoryRow(id, platform_id, pricing, session_id) >>]

\* ExistingMatch with product_b_id compared with the wrong product in both
\* orderings.
ExistingMatchTypo(matches, a_id, b_id) ==
    \E k \in 1..Len(matches) :
        \/ matches[k].product_a_id = a_id /\ matches[k].product_b_id = a_id
        \/ matches[k].product_a_id = b_id /\ matches[k].product_b_id = b_id

\* ------------------------------------------------------------------ matcher
\* The existence query of _find_product_matches over the rows it sees.
ExistingMatch(matches, a_id, b_id) ==
    \E k \in 1..Len(matches) :
        \/ matches[k].product_a_id = a_id /\ matches[k].product_b_id = b_id
        \/ matches[k].product_a_id = b_id /\ matches[k].product_b_id = a_id

\* MatchRow with the two match types swapped.
MatchRowSwapped(a, b, similarity) ==
    [product_a_id |-> a.id, product_b_id |-> b.id,
     similarity_score |-> similarity,
     match_type |-> IF FracLess(similarity, ExactThreshold) THEN "exact" ELSE "similar",
     match_algorithm |-> "name_similarity",
     is_verified |-> FALSE, is_active |-> TRUE]

\* ProductMatch(...) of a pair; is_verified and is_active take their defaults.
MatchRow(a, b, similarity) ==
    [product_a_id |-> a.id, product_b_id |-> b.id,
     similarity_score |-> similarity,
     match_type |-> IF FracLess(similarity, ExactThreshold) THEN "similar" ELSE "exact",
     match_algorithm |-> "name_similarity",
     is_verified |-> FALSE, is_active |-> TRUE]

\* CrossPlatform without the same-platform skip.
CrossPlatformNoSkip(a, b) == TRUE

\* Whether the pair loop of _find_product_matches passes the pair on to the
\* similarity computation: it skips two products of one platform.
CrossPlatform(a, b) == a.platform_id # b.platform_id

\* The pair loop of _find_product_matches from the pair (i, j) on: the rows
\* it adds to the session.  procd is processed_products as product ids,
\* products the state of those objects, visible the match rows a query sees:
\* the session does not autoflush and the pass never flushes, so the rows
\* added earlier in the pass (pending) are not among them.
RECURSIVE FindProductMatches(_, _, _, _, _, _)
FindProductMatches(products, procd, visible, i, j, pending) ==
    IF i > Len(procd) THEN pending
    ELSE IF j > Len(procd)
         THEN FindProductMatches(products, procd, visible, i + 1, i + 2, pending)
    ELSE LET a == products[procd[i]]
             b == products[procd[j]]
             sim == CalculateSimilarity(a, b)
             add == /\ CrossPlatform(a, b)
                    /\ FracGeq(sim, MatchThreshold)
                    /\ ~ExistingMatch(visible, a.id, b.id)
         IN  FindProductMatches(products, procd, visible, i, j + 1,
                 IF add THEN Append(pending, MatchRow(a, b, sim)) ELSE pending)

\* -------------------------------------------------------------------- state
VARIABLES
    dbProducts,    \* the committed rows of products; a row's id is its index
    dbHistory,     \* the committed rows of price_history
    dbMatches,     \* the committed rows of product_matches
    dbSessions,    \* the committed rows of scrape_sessions
    sProducts,     \* products as the open session has them (flushed or dirty)
    sHistory,      \* price_history with the rows the session added
    sMatches,      \* the ProductMatch rows the session added, not flushed
    sSessions,     \* scrape_sessions with the session's own row
    active,        \* the session's transaction is usable (no failed flush)
    pc,            \* where process_scraper_results is
    batch,         \* scraper_results as far as the loop has consumed it
    processed,     \* processed_products, as product ids
    etlSessionId,  \* ProductETL.session_id of the ProductETL object in use
    etlRuns,       \* the runs made on that object
    nextUuid,      \* the next value uuid.uuid4() gives
    runs,          \* the runs started
    obs,           \* the raw records consumed, over all runs
    arg,           \* the input of a function applied on its own
    res,           \* what that function gave
    step           \* "in" before the function is applied, "out" after

vars == << dbProducts, dbHistory, dbMatches, dbSessions, sProducts, sHistory,
           sMatches, sSessions, active, pc, batch, processed, etlSessionId,
           etlRuns, nextUuid, runs, obs, arg, res, step >>

\* The variables of the pipeline, and those of a function applied on its own.
etlVars == << dbProducts, dbHistory, dbMatches, dbSessions, sProducts, sHistory,
              sMatches, sSessions, active, pc, batch, processed, etlSessionId,
              etlRuns, nextUuid, runs, obs >>

fnVars == << arg, res, step >>

\* The store after init_database, and one ProductETL() constructed.
EtlInit ==
    /\ dbProducts = <<>> /\ dbHistory = <<>> /\ dbMatches = <<>> /\ dbSessions = <<>>
    /\ sProducts = <<>> /\ sHistory = <<>> /\ sMatches = <<>> /\ sSessions = <<>>
    /\ active = FALSE
    /\ pc = "idle"
    /\ batch = <<>>
    /\ processed = <<>>
    /\ etlSessionId = 1
    /\ etlRuns = 0
    /\ nextUuid = 2
    /\ runs = 0
    /\ obs = 0

\* The pipeline's initial state; no function is applied on its own.
Init ==
    /\ EtlInit
    /\ arg = <<>> /\ res = <<>> /\ step = "none"

Returned == pc \in {"idle", "done", "failed"}

\* ProductETL.__init__: another ProductETL object, with a new session_id.
NewETL ==
    /\ UNCHANGED fnVars
    /\ Returned
    /\ etlRuns > 0
    /\ runs < MaxRuns
    /\ etlSessionId' = nextUuid
    /\ nextUuid' = nextUuid + 1
    /\ etlRuns' = 0
    /\ UNCHANGED << dbProducts, dbHistory, dbMatches, dbSessions, sProducts, sHistory,
                    sMatches, sSessions, active, pc, batch, processed, runs, obs >>

\* ScrapeSession(...) of _create_scrape_session.
NewScrapeSession(session_id) ==
    [session_id |-> session_id, status |-> "running",
     products_found |-> 0, success_rate |-> Frac(0, 1), completed |-> FALSE,
     error_message |-> PyNone]

\* db.rollback(): the session forgets what it added and changed.
Rollback ==
    /\ sProducts' = dbProducts
    /\ sHistory' = dbHistory
    /\ sMatches' = <<>>
    /\ sSessions' = dbSessions

\* process_scraper_results up to the loop: the session is opened, the
\* ScrapeSession row added and flushed, the caches built.  The flush raises
\* IntegrityError when a row already has the session_id (it is unique): the
\* run rolls back and raises.
StartRun ==
    /\ UNCHANGED fnVars
    /\ Returned
    /\ runs < MaxRuns
    /\ runs' = runs + 1
    /\ etlRuns' = etlRuns + 1
    /\ batch' = <<>>
    /\ processed' = <<>>
    /\ IF \E k \in 1..Len(dbSessions) : dbSessions[k].session_id = etlSessionId
       THEN /\ pc' = "failed"
            /\ active' = FALSE
            /\ Rollback
       ELSE /\ pc' = "loop"
            /\ active' = TRUE
            /\ sProducts' = dbProducts
            /\ sHistory' = dbHistory
            /\ sMatches' = <<>>
            /\ sSessions' = Append(dbSessions, NewScrapeSession(etlSessionId))
    /\ UNCHANGED << dbProducts, dbHistory, dbMatches, dbSessions, etlSessionId,
                    nextUuid, obs >>

\* One turn of the loop of process_scraper_results: _process_single_product
\* on the next raw record, an exception of it caught and the loop going on.
\* datetime.now() is the count of the records consumed: later is greater.
\* A failed flush rolls the transaction back and leaves the session unusable
\* until rollback().
ProcessRecord ==
    /\ UNCHANGED fnVars
    /\ pc = "loop"
    /\ obs < MaxObs
    /\ \E raw \in RawRecords :
        LET out == ProcessSingleProduct(sProducts, active, etlSessionId, raw, obs + 1)
        IN  /\ batch' = Append(batch, raw)
            /\ obs' = obs + 1
            /\ IF out.kind \in {"update", "insert"}
               THEN /\ sProducts' = out.products
                    /\ sHistory' = sHistory \o out.history
                    /\ processed' = Append(processed, out.id)
                    /\ UNCHANGED << sMatches, sSessions, active >>
               ELSE IF out.kind = "flushfail"
               THEN /\ Rollback
                    /\ active' = FALSE
                    /\ UNCHANGED processed
               ELSE UNCHANGED << sProducts, sHistory, sMatches, sSessions, active,
                                 processed >>
    /\ UNCHANGED << dbProducts, dbHistory, dbMatches, dbSessions, pc, etlSessionId,
                    etlRuns, nextUuid, runs >>

\* The loop is over: _find_product_matches over processed_products.  On a
\* session a failed flush has left unusable the pass adds nothing (a query
\* of it raises, or it makes none and the commit raises): CommitFails is
\* what follows.
FindMatches ==
    /\ UNCHANGED fnVars
    /\ pc = "loop"
    /\ pc' = "finalize"
    /\ sMatches' = IF active
                   THEN FindProductMatches(sProducts, processed, dbMatches, 1, 2, <<>>)
                   ELSE <<>>
    /\ UNCHANGED << dbProducts, dbHistory, dbMatches, dbSessions, sProducts, sHistory,
                    sSessions, active, batch, processed, etlSessionId, etlRuns,
                    nextUuid, runs, obs >>

\* CompletedSession with products_found = len(scraper_results).
CompletedSessionOverResults(row, n_processed, n_results) ==
    [row EXCEPT !.products_found = n_results,
                !.completed = TRUE,
                !.status = "completed",
                !.success_rate = IF n_results # 0 THEN Frac(n_processed, n_results)
                                 ELSE Frac(0, 1)]

\* The session row as the run leaves it: products_found, status,
\* success_rate = len(processed_products)/len(scraper_results), 0.0 for
\* an empty batch.
CompletedSession(row, n_processed, n_results) ==
    [row EXCEPT !.products_found = n_processed,
                !.completed = TRUE,
                !.status = "completed",
                !.success_rate = IF n_results # 0 THEN Frac(n_processed, n_results)
                                 ELSE Frac(0, 1)]

\* The session row is updated and db.commit() flushes and commits all the
\* session holds.
Commit ==
    /\ UNCHANGED fnVars
    /\ pc = "finalize"
    /\ active
    /\ pc' = "done"
    /\ LET n == Len(sSessions)
           rows == [sSessions EXCEPT
                       ![n] = CompletedSession(sSessions[n], Len(processed), Len(batch))]
       IN  /\ dbSessions' = rows
           /\ sSessions' = rows
    /\ dbProducts' = sProducts
    /\ dbHistory' = sHistory
    /\ dbMatches' = dbMatches \o sMatches
    /\ sMatches' = <<>>
    /\ active' = FALSE
    /\ UNCHANGED << sProducts, sHistory, batch, processed, etlSessionId, etlRuns,
                    nextUuid, runs, obs >>

\* db.commit() raises (always after a failed flush; else when the store
\* fails): except: db.rollback(); raise.
CommitFails ==
    /\ UNCHANGED fnVars
    /\ pc = "finalize"
    /\ pc' = "failed"
    /\ Rollback
    /\ active' = FALSE
    /\ UNCHANGED << dbProducts, dbHistory, dbMatches, dbSessions, batch, processed,
                    etlSessionId, etlRuns, nextUuid, runs, obs >>

\* The dictionary process_scraper_results returns after the commit.
ProcessScraperResult(session_id, processed_products, scraper_results) ==
    [session_id |-> session_id,
     products_processed |-> Len(processed_products),
     success_rate |-> IF scraper_results # <<>>
                      THEN Frac(Len(processed_products), Len(scraper_results))
                      ELSE Frac(0, 1),
     products |-> processed_products]

\* dict.get(key, default)
DictGet(dict, key, default) ==
    IF key \in DOMAIN dict THEN dict[key] ELSE default

\* What run_pipeline returns for the records the scrapers gave: nothing is
\* processed when there is none, an exception of process_scraper_results
\* is caught, and the counts are read from its dictionary with .get.
RunPipeline(all_results, raised, result) ==
    IF all_results = <<>> \/ raised
    THEN [raised |-> FALSE, success |-> FALSE, products_loaded |-> 0,
          matches_found |-> 0]
    ELSE [raised |-> FALSE, success |-> TRUE,
          products_loaded |-> DictGet(result, "products_processed", 0),
          matches_found |-> DictGet(result, "matches_created", 0),
          total_scraped |-> Len(all_results)]

Next == NewETL \/ StartRun \/ ProcessRecord \/ FindMatches \/ Commit \/ CommitFails

Spec == Init /\ [][Next]_vars

\* --------------------------------------------- the quality score on its own
NameLaptop == <<"l","a","p","t","o","p">>

\* Raw records for the quality score: no name, a name of 5 and one of 6
\* characters; a price that is a number (negative, 0, positive), missing,
\* not a number, or a numeric text; each of the four other keys there or not.
QualityInputs ==
    { [Raw(PChome, "A1", name, pr[1], pr[2], "missing", 0)
         EXCEPT !.url = u, !.image_url = i, !.brand = b, !.description = d] :
        name \in {<<>>, NameHp15, NameLaptop},
        pr \in {<<"num", -5>>, <<"num", 0>>, <<"num", 100>>, <<"missing", 0>>,
                <<"invalid", 0>>, <<"numstr", 100>>},
        u \in BOOLEAN, i \in BOOLEAN, b \in BOOLEAN, d \in BOOLEAN }

InitQuality ==
    /\ EtlInit
    /\ arg \in QualityInputs
    /\ res = <<>>
    /\ step = "in"

\* _calculate_quality_score(raw_product): it reads the dict and writes
\* nothing.
ApplyQualityScore ==
    /\ step = "in"
    /\ res' = CalculateQualityScore(arg)
    /\ step' = "out"
    /\ UNCHANGED << arg, etlVars >>

SpecQuality == InitQuality /\ [][ApplyQualityScore]_vars

\* ------------------------------------------------ _normalize_name on its own
\* The characters of the names: a capital, a small letter, two whitespace
\* characters, a bracket, the noise word u7684 and the two ideographs of
\* the noise word u9650 u6642.
NameAlphabet == {"A", "b", " ", "\t", "(", "u7684", "u9650", "u6642"}

Names == UNION {[1..n -> NameAlphabet] : n \in 0..MaxNameLen}

InitNormalize ==
    /\ EtlInit
    /\ arg \in Names
    /\ res = <<>>
    /\ step = "in"

\* _normalize_name(name)
ApplyNormalizeName ==
    /\ step = "in"
    /\ res' = NormalizeName(arg)
    /\ step' = "out"
    /\ UNCHANGED << arg, etlVars >>

SpecNormalize == InitNormalize /\ [][ApplyNormalizeName]_vars

\* ------------------------------------------------------ cleaning of a text
\* The characters of the texts: two letters, two whitespace characters, a
\* character that is not allowed, a bracket and an ideograph.
TextAlphabet == {"a", "B", " ", "\t", "!", "(", "u7684"}

Texts == UNION {[1..n -> TextAlphabet] : n \in 0..MaxNameLen}

InitClean ==
    /\ EtlInit
    /\ arg \in Texts
    /\ res = <<>>
    /\ step = "in"

\* _clean_text(text)
ApplyCleanText ==
    /\ step = "in"
    /\ res' = CleanText(arg)
    /\ step' = "out"
    /\ UNCHANGED << arg, etlVars >>

SpecClean == InitClean /\ [][ApplyCleanText]_vars

\* ------------------------------------------- the similarity of two products
\* Normalized names, brands (what _extract_brand_model gives) and prices of
\* stored products; 70 and 71 lie on the two sides of 0.7 of 100, and a
\* stored price can be negative or 0.
SimNames == {<<>>, NameHp15, NameLgTv, NameLaptop}

SimBrands == {<<>>, <<"H","p">>, <<"L","g">>}

SimPrices == {-10, -9, 0, 70, 71, 100}

\* A product as _calculate_similarity and _find_product_matches read it.
SimProduct(id, name, brand, price) ==
    [id |-> id, platform_id |-> id, normalized_name |-> name, brand |-> brand,
     current_price |-> price]

InitSimilarity ==
    /\ EtlInit
    /\ arg \in { << SimProduct(1, na, ba, pa), SimProduct(2, nb, bb, pb) >> :
                  na \in SimNames, nb \in SimNames, ba \in SimBrands, bb \in SimBrands,
                  pa \in SimPrices, pb \in SimPrices }
    /\ res = <<>>
    /\ step = "in"

\* _calculate_similarity on the two products, and _find_product_matches on
\* them as the processed products of a run, no edge being stored.
ApplySimilarity ==
    /\ step = "in"
    /\ res' = [similarity |-> CalculateSimilarity(arg[1], arg[2]),
               edges |-> FindProductMatches(arg, <<1, 2>>, <<>>, 1, 2, <<>>)]
    /\ step' = "out"
    /\ UNCHANGED << arg, etlVars >>

SpecSimilarity == InitSimilarity /\ [][ApplySimilarity]_vars

\* ------------------------------------------ DataLoader and DatabaseManager
\* DataTransformer._transform_single_product raises: _validate_prices
\* compares the price with a float, TypeError for None or a text.
TransformFails(raw) == raw.price_kind \in {"invalid", "numstr"}

\* DataTransformer.transform_product_batch: the records that are
\* transformed, and for each that raised the number i+1 of its message.
TransformProductBatch(raws) ==
    [products |-> SelectSeq(raws, LAMBDA r : ~TransformFails(r)),
     errors |-> SelectSeq([i \in 1..Len(raws) |-> i],
                          LAMBDA i : TransformFails(raws[i]))]

\* The platforms ProductSchema.validate_platform allows.
AllowedPlatforms == { PChome, Momo, <<"s","h","o","p","e","e">>, Yahoo,
                      <<"r","u","t","e","n">> }

\* The highest price ProductSchema.validate_price_range allows.
MaxSchemaPrice == 10000000

\* ProductSchema(**product_data) raises: a required field is missing or
\* empty, the platform is not allowed, the price is negative or too high,
\* the url is not there.
ValidationFails(product) ==
    \/ Lower(product.platform) \notin AllowedPlatforms
    \/ product.product_id = PyNone
    \/ Len(Strip(CollapseWhitespace(product.name))) < 1
    \/ product.price_kind = "missing"
    \/ product.price < 0
    \/ product.price > MaxSchemaPrice
    \/ ~product.url

\* ProductSchema(**product_data).dict() of a record that passes: the
\* platform in lower case (validate_platform), the name with its
\* whitespace normalised (clean_product_name).
ValidatedProduct(product) ==
    [product EXCEPT !.platform = Lower(product.platform),
                    !.name = Strip(CollapseWhitespace(product.name))]

\* ValidateProducts that lets the exception of the first bad record out.
ValidateProductsRaises(products) ==
    LET bad == \E i \in 1..Len(products) : ValidationFails(products[i])
    IN  [raised |-> bad,
         products |-> IF bad THEN <<>>
                      ELSE [i \in 1..Len(products) |-> ValidatedProduct(products[i])],
         errors |-> <<>>]

\* DataLoader._validate_products: the validated records, and for each that
\* failed an error with the number i+1 of its message, i its index among
\* the products given, and the reason (the exception's text, here whether
\* there is one).  The try is around each record: nothing is raised.
ValidateProducts(products) ==
    LET good == SelectSeq(products, LAMBDA r : ~ValidationFails(r))
    IN  [raised |-> FALSE,
         products |-> [i \in 1..Len(good) |-> ValidatedProduct(good[i])],
         errors |-> SelectSeq([i \in 1..Len(products) |-> i],
                              LAMBDA i : ValidationFails(products[i]))]

\* SaveProducts that gives up without raising.
SaveProductsSilent(products) ==
    [raised |-> FALSE, saved |-> 0, stored |-> <<>>, history |-> <<>>]

\* DatabaseManager.save_products on a new store.  The first record's query
\* is filter_by(platform=..., product_id=...) on Product, which has the
\* relationship platform and no attribute product_id (its columns are
\* platform_id and platform_product_id): the query raises, the session is
\* rolled back and the exception raised again.  With no record the loop
\* does nothing and 0 is returned.  stored and history are the keys that
\* then have a product and a price_history row.
SaveProducts(products) ==
    [raised |-> products # <<>>, saved |-> 0, stored |-> <<>>, history |-> <<>>]

\* DatabaseManager.get_price_history: the same filter_by on PriceHistory,
\* whose product_id is the products.id and whose platform is a relationship.
GetPriceHistory(history, platform, product_id) ==
    [raised |-> TRUE, rows |-> <<>>]

\* DataLoader._load_to_database: the exception of save_products is caught.
LoadToDatabase(products) ==
    LET saved == SaveProducts(products)
    IN  IF saved.raised
        THEN [raised |-> FALSE, success |-> 0, failed |-> Len(products),
              duplicates |-> 0, errors |-> << "Database error" >>]
        ELSE [raised |-> FALSE, success |-> saved.saved, failed |-> 0,
              duplicates |-> 0, errors |-> <<>>]

\* LoadResult() as it is constructed.
NewLoadResult ==
    [kind |-> "load", raised |-> FALSE,
     success_count |-> 0, failed_count |-> 0, duplicate_count |-> 0,
     validation_errors |-> <<>>, transformation_errors |-> <<>>,
     database_errors |-> <<>>]

\* LoadResult.total_processed
TotalProcessed(result) == result.success_count + result.failed_count

\* SuccessRate with the failed count as the numerator.
SuccessRateOfFailed(result) ==
    IF TotalProcessed(result) = 0 THEN Frac(0, 1)
    ELSE Frac(result.failed_count, TotalProcessed(result))

\* LoadResult.success_rate
SuccessRate(result) ==
    IF TotalProcessed(result) = 0 THEN Frac(0, 1)
    ELSE Frac(result.success_count, TotalProcessed(result))

\* DataLoader.load_products: transform, return if nothing is left,
\* validate, load if something is left; an exception on the way is caught
\* and reported among the database errors.
LoadProducts(raws) ==
    LET transformed == TransformProductBatch(raws)
        r1 == [NewLoadResult EXCEPT !.transformation_errors = transformed.errors]
        validated == ValidateProducts(transformed.products)
        r2 == [r1 EXCEPT !.validation_errors = validated.errors]
        db == LoadToDatabase(validated.products)
    IN  IF transformed.products = <<>> THEN r1
        ELSE IF validated.products = <<>> THEN r2
        ELSE IF db.raised
             THEN [r2 EXCEPT !.database_errors = << "Pipeline failure" >>]
        ELSE [r2 EXCEPT !.success_count = db.success,
                        !.failed_count = db.failed,
                        !.duplicate_count = db.duplicates,
                        !.database_errors = db.errors]

\* Raw records for the loader: two that pass every step, one whose price is
\* not a number, one of a platform that is not allowed, one with a
\* negative price, one without url, one whose platform has capitals, one
\* of a platform the schema allows and the platforms table does not have.
LoaderRecords ==
    { Raw(PChome, "A1", NameHp15, "num", 100, "missing", 0),
      Raw(Momo, "B1", NameLgTv, "num", 90, "missing", 0),
      Raw(PChome, "A2", NameHp15, "invalid", 0, "missing", 0),
      Raw(<<"e","b","a","y">>, "E1", NameHp15, "num", 100, "missing", 0),
      Raw(Momo, "B2", NameLgTv, "num", -5, "missing", 0),
      [Raw(Momo, "B3", NameLgTv, "num", 50, "missing", 0) EXCEPT !.url = FALSE],
      Raw(<<"P","C","h","o","m","e">>, "A3", NameLaptop, "num", 70, "missing", 0),
      Raw(<<"s","h","o","p","e","e">>, "S1", NameLaptop, "num", 70, "missing", 0) }

Batches == UNION {[1..n -> LoaderRecords] : n \in 0..MaxBatch}

InitLoader ==
    /\ EtlInit
    /\ arg \in Batches
    /\ res = <<>>
    /\ step = "in"

\* DataLoader().load_products(raw_products)
ApplyLoadProducts ==
    /\ step = "in"
    /\ res' = LoadProducts(arg)
    /\ step' = "out"
    /\ UNCHANGED << arg, etlVars >>

\* DatabaseManager().save_products(products) on validated records, then
\* get_price_history for each of them.
ApplySaveProducts ==
    /\ step = "in"
    /\ \A i \in 1..Len(arg) : ~TransformFails(arg[i]) /\ ~ValidationFails(arg[i])
    /\ LET saved == SaveProducts(arg)
       IN  res' = [kind |-> "save", raised |-> saved.raised, returned |-> saved.saved,
                   stored |-> saved.stored,
                   histories |-> [i \in 1..Len(arg) |->
                       GetPriceHistory(saved.history, arg[i].platform, arg[i].product_id)]]
    /\ step' = "out"
    /\ UNCHANGED << arg, etlVars >>

\* DataLoader()._validate_products(products) on transformed records.
ApplyValidateProducts ==
    /\ step = "in"
    /\ \A i \in 1..Len(arg) : ~TransformFails(arg[i])
    /\ LET out == ValidateProducts(arg)
       IN  res' = [kind |-> "validate", raised |-> out.raised,
                   products |-> out.products, errors |-> out.errors]
    /\ step' = "out"
    /\ UNCHANGED << arg, etlVars >>

NextLoader == ApplyLoadProducts \/ ApplySaveProducts \/ ApplyValidateProducts

SpecLoader == InitLoader /\ [][NextLoader]_vars

\* ------------------------------------------------------------------ claims
Last(seq) == seq[Len(seq)]

\* The platform id and platform product id of a raw record.
RawKey(raw) == << PlatformCacheGet(Lower(raw.platform)), raw.product_id >>

ProductKey(p) == << p.platform_id, p.platform_product_id >>

\* A raw record the upsert step accepts on an empty catalog.
RawAccepted(raw) ==
    ProcessSingleProduct(<<>>, TRUE, 0, raw, 0).kind = "insert"

UniqueKeys(products) ==
    \A i, j \in 1..Len(products) :
        i # j => ProductKey(products[i]) # ProductKey(products[j])

\* C1: no two catalog entries share (platform id, platform product id), in
\* the committed store and in what an open session sees.
C1_UniqueCatalogKey == UniqueKeys(dbProducts) /\ UniqueKeys(sProducts)

\* C1 witness: two runs have committed, the catalog holds two entries and one
\* of them was observed again.
C1_Witness ==
    /\ pc = "done" /\ runs = 2
    /\ Len(dbProducts) = 2
    /\ \E k \in 1..Len(dbProducts) : dbProducts[k].scrape_count >= 2

\* C2: an accepted observation of a key the catalog has updates that entry
\* (same id, no new entry, scrape_count + 1); an accepted observation of a
\* new key adds one entry with scrape_count 1.
C2_Reobservation ==
    [][(pc = "loop" /\ processed' # processed) =>
        LET raw == Last(batch')
            had == {k \in 1..Len(sProducts) : ProductKey(sProducts[k]) = RawKey(raw)}
        IN  IF had # {}
            THEN /\ Len(sProducts') = Len(sProducts)
                 /\ \E k \in had :
                        /\ Last(processed') = k
                        /\ sProducts'[k].id = k
                        /\ sProducts[k].id = k
                        /\ sProducts'[k].scrape_count = sProducts[k].scrape_count + 1
            ELSE /\ Len(sProducts') = Len(sProducts) + 1
                 /\ Last(processed') = Len(sProducts')
                 /\ Last(sProducts').id = Len(sProducts')
                 /\ Last(sProducts').scrape_count = 1]_vars

\* C2 witness: an entry created in one run was observed again in the next,
\* and the catalog still holds that one entry.
C2_Witness ==
    /\ pc = "done" /\ runs = 2
    /\ Len(dbProducts) = 1
    /\ dbProducts[1].scrape_count = 2
    /\ Len(dbHistory) = 2
    /\ dbHistory[1].scrape_session_id # dbHistory[2].scrape_session_id

SamePair(m, n) ==
    \/ m.product_a_id = n.product_a_id /\ m.product_b_id = n.product_b_id
    \/ m.product_a_id = n.product_b_id /\ m.product_b_id = n.product_a_id

\* C3: every unordered pair of catalog entries is linked by at most one
\* match edge, counting both orientations.
C3_OneEdgePerPair ==
    \A i, j \in 1..Len(dbMatches) : i # j => ~SamePair(dbMatches[i], dbMatches[j])

\* C4: after a committed run, the matcher run again over the same entries
\* would add no edge; and no step removes or alters a committed edge.
C4_MatcherIdempotent ==
    /\ [](pc = "done" =>
            FindProductMatches(dbProducts, processed, dbMatches, 1, 2, <<>>) = <<>>)
    /\ [][/\ Len(dbMatches') >= Len(dbMatches)
          /\ SubSeq(dbMatches', 1, Len(dbMatches)) = dbMatches]_vars

\* C4 witness: a run has committed an edge, and a second pass over its
\* entries meets a cross-platform pair at or over the threshold whose edge
\* the existence query finds.
C4_Witness ==
    /\ pc = "done"
    /\ Len(dbMatches) >= 1
    /\ \E i, j \in 1..Len(processed) :
        /\ i < j
        /\ CrossPlatform(dbProducts[processed[i]], dbProducts[processed[j]])
        /\ FracGeq(CalculateSimilarity(dbProducts[processed[i]], dbProducts[processed[j]]),
                   MatchThreshold)
        /\ ExistingMatch(dbMatches, processed[i], processed[j])

EdgesCrossPlatform(matches, products) ==
    \A k \in 1..Len(matches) :
        /\ matches[k].product_a_id # matches[k].product_b_id
        /\ products[matches[k].product_a_id].platform_id
             # products[matches[k].product_b_id].platform_id

\* C5: every match edge, committed or added by the open session, links two
\* entries of different platforms.
C5_EdgesCrossPlatform ==
    /\ EdgesCrossPlatform(dbMatches, dbProducts)
    /\ EdgesCrossPlatform(sMatches, sProducts)

\* C5 witness: an edge is committed while the run's list held two entries of
\* one platform (the same entry twice, or two of its entries).
C5_Witness ==
    /\ pc = "done"
    /\ Len(dbMatches) >= 1
    /\ \E i, j \in 1..Len(processed) :
        i < j /\ ~CrossPlatform(dbProducts[processed[i]], dbProducts[processed[j]])

\* The discount of the spec for a current and an original price.
DiscountOk(current, original, discount) ==
    /\ FracGeq(discount, Frac(0, 1))
    /\ FracGeq(Frac(100, 1), discount)
    /\ IF original <= current \/ original <= 0
       THEN FracEq(discount, Frac(0, 1))
       ELSE FracEq(discount, Frac((original - current) * 100, original))

\* C6: every stored discount percentage, on products and on price history,
\* is in [0,100], is 0 when original <= current or original <= 0, and is
\* (original - current)/original x 100 otherwise.
C6_DiscountRange ==
    /\ \A k \in 1..Len(dbProducts) :
        DiscountOk(dbProducts[k].current_price, dbProducts[k].original_price,
                   dbProducts[k].discount_percentage)
    /\ \A k \in 1..Len(dbHistory) :
        DiscountOk(dbHistory[k].price, dbHistory[k].original_price,
                   dbHistory[k].discount_percentage)

\* C7: a record with a negative price is rejected: the step that consumes it
\* accepts nothing and writes neither a product nor a history row.
C7_NegativePriceRejected ==
    [][(/\ pc = "loop" /\ batch' # batch
        /\ Last(batch').price_kind = "num" /\ Last(batch').price < 0) =>
       (processed' = processed /\ sProducts' = sProducts /\ sHistory' = sHistory)]_vars

\* C8: when a committed run's batch holds an accepted record and a later one
\* of the same key, the entry has the first one's price and the run has
\* added exactly one history row for it.
C8_FirstSeenWins ==
    pc = "done" =>
        \A i, j \in 1..Len(batch) :
            (/\ i < j
             /\ RawAccepted(batch[i])
             /\ RawKey(batch[i]) = RawKey(batch[j])
             /\ \A h \in 1..(i - 1) : RawKey(batch[h]) # RawKey(batch[i])) =>
            LET id == FindExisting(dbProducts, RawKey(batch[i])[1], RawKey(batch[i])[2])
            IN  /\ id # 0
                /\ dbProducts[id].current_price = ExtractPricing(batch[i]).current_price
                /\ Cardinality({k \in 1..Len(dbHistory) :
                                  /\ dbHistory[k].product_id = id
                                  /\ dbHistory[k].scrape_session_id = etlSessionId}) = 1

\* C9: the step of an accepted observation appends exactly one history row,
\* with the entry's id and platform id and the run's session id; the step
\* of a rejected one appends none.
C9_OneHistoryPerObservation ==
    [][(pc = "loop" /\ batch' # batch) =>
        IF processed' # processed
        THEN /\ Len(sHistory') = Len(sHistory) + 1
             /\ SubSeq(sHistory', 1, Len(sHistory)) = sHistory
             /\ Last(sHistory').product_id = Last(processed')
             /\ Last(sHistory').platform_id = sProducts'[Last(processed')].platform_id
             /\ Last(sHistory').scrape_session_id = Last(sSessions').session_id
             /\ Last(sSessions').status = "running"
        ELSE sHistory' \in {sHistory, dbHistory}]_vars

\* C9 witness: in one run an observation inserted an entry, a second updated
\* it and a third was rejected: two history rows of the run for the entry.
C9_Witness ==
    /\ pc = "loop"
    /\ Len(batch) = 3 /\ Len(processed) = 2
    /\ processed[1] = processed[2]
    /\ Cardinality({k \in 1..Len(sHistory) :
                      /\ sHistory[k].product_id = processed[1]
                      /\ sHistory[k].scrape_session_id = etlSessionId}) = 2

\* C10: what a run wrote for a record it accepted stays in the store when the
\* run fails later: the entry and a history row of the run for it.
C10_PerRecordCommit ==
    pc = "failed" =>
        \A k \in 1..Len(processed) :
            /\ processed[k] <= Len(dbProducts)
            /\ \E h \in 1..Len(dbHistory) :
                /\ dbHistory[h].product_id = processed[k]
                /\ dbHistory[h].scrape_session_id = etlSessionId

\* ------------------------------------------------------- sessions (C11-C13)
\* Whether a session row may go from the status s to the status t.
StatusStep(s, t) ==
    \/ s = t
    \/ s = "running" /\ t \in {"completed", "failed"}

TerminalStatus == {"completed", "failed"}

\* The status a session row of the open session has after a step: "gone"
\* when the step has left no row of that session.
StatusAfter(k, session_rows) ==
    IF k <= Len(session_rows) /\ session_rows[k].session_id = sSessions[k].session_id
    THEN session_rows[k].status
    ELSE "gone"

\* C11: a session's status changes only from running to completed, as it
\* does when its run returns, whatever became of the records, or from
\* running to failed, as it does when its run raises; a session that is
\* completed or failed stays as it is for ever.
C11_StatusTransitions ==
    [][ \A k \in 1..Len(sSessions) :
            LET before == sSessions[k].status
                after == StatusAfter(k, sSessions')
            IN  /\ StatusStep(before, after)
                /\ before \in TerminalStatus => sSessions'[k] = sSessions[k]
                /\ (before = "running" /\ pc' = "done") => after = "completed"
                /\ (before = "running" /\ pc' = "failed") => after = "failed" ]_vars

\* C12: a run that raises after its session row was created leaves that
\* session stored with the status failed and an error message, and no
\* stored session is left running.
C12_FailedSessionStored ==
    [][ (pc \in {"loop", "finalize"} /\ pc' = "failed")
        => /\ \E k \in 1..Len(dbSessions') :
                 /\ dbSessions'[k].session_id = etlSessionId
                 /\ dbSessions'[k].status = "failed"
                 /\ dbSessions'[k].error_message # PyNone
           /\ \A k \in 1..Len(dbSessions') : dbSessions'[k].status # "running" ]_vars

\* The price_history rows of a session: one for each record it accepted.
AcceptedOf(session_id) ==
    Cardinality({k \in 1..Len(dbHistory) : dbHistory[k].scrape_session_id = session_id})

\* C13: when process_scraper_results returns, the session's products_found
\* is the number of records the run accepted, its success_rate is that
\* number over the number of raw records, 0 for an empty batch (nothing is
\* divided by 0), and lies between 0 and 1.
C13_SessionCounts ==
    pc = "done" =>
        LET row == Last(dbSessions)
            accepted == AcceptedOf(row.session_id)
        IN  /\ row.products_found = accepted
            /\ row.success_rate.den # 0
            /\ batch = <<>> => row.success_rate.num = 0
            /\ batch # <<>> => FracEq(row.success_rate, Frac(accepted, Len(batch)))
            /\ FracGeq(row.success_rate, Frac(0, 1))
            /\ FracGeq(Frac(1, 1), row.success_rate)

\* A run has returned that accepted two of the three records of its batch.
C13_Witness ==
    /\ pc = "done"
    /\ Len(batch) = 3
    /\ Last(dbSessions).products_found = 2
    /\ AcceptedOf(Last(dbSessions).session_id) = 2

\* ------------------------------------------------------- one batch, one edge
\* The catalog entry of a raw record's key, 0 when there is none.
EntryOf(raw) ==
    FindExisting(dbProducts, PlatformCacheGet(Lower(raw.platform)), raw.product_id)

\* The edges stored between two entries, in either orientation.
EdgesBetween(a_id, b_id) ==
    {k \in 1..Len(dbMatches) :
        \/ dbMatches[k].product_a_id = a_id /\ dbMatches[k].product_b_id = b_id
        \/ dbMatches[k].product_a_id = b_id /\ dbMatches[k].product_b_id = a_id}

\* A run has returned whose batch was two valid records of two supported
\* platforms, with keys the catalog did not have before the run (each entry
\* has been observed once), the two entries' similarity being 0.7 or more.
C17_Case ==
    /\ pc = "done"
    /\ Len(batch) = 2
    /\ \A k \in 1..2 : RawAccepted(batch[k]) /\ batch[k].price >= 0
    /\ PlatformCacheGet(Lower(batch[1].platform)) # PlatformCacheGet(Lower(batch[2].platform))
    /\ \A k \in 1..2 : EntryOf(batch[k]) # 0
                         /\ dbProducts[EntryOf(batch[k])].scrape_count = 1
    /\ FracGeq(CalculateSimilarity(dbProducts[EntryOf(batch[1])],
                                   dbProducts[EntryOf(batch[2])]), Frac(7, 10))

\* C17: such a run has created exactly two catalog entries, those of the
\* two records, and exactly one match edge between them, of the type
\* similar or exact.
C17_TwoEntriesOneEdge ==
    C17_Case =>
        LET a == EntryOf(batch[1])
            b == EntryOf(batch[2])
        IN  /\ a # b
            /\ {k \in 1..Len(dbProducts) : dbProducts[k].created_at > obs - 2} = {a, b}
            /\ Cardinality(EdgesBetween(a, b)) = 1
            /\ \A k \in EdgesBetween(a, b) : dbMatches[k].match_type \in {"similar", "exact"}

\* The case of C17, in a catalog that held another entry before the run.
C17_Witness ==
    /\ C17_Case
    /\ Len(dbProducts) = 3

\* ------------------------------------------------------------ refresh (C20)
\* C20: an accepted observation of a key the catalog has refreshes the
\* entry's price, availability, name, quality score, scrape_count and
\* last_scraped from the new record and leaves its id and created_at as
\* they were.
C20_RefreshOnReobservation ==
    [][(pc = "loop" /\ processed' # processed) =>
        LET raw == Last(batch')
            had == {k \in 1..Len(sProducts) : ProductKey(sProducts[k]) = RawKey(raw)}
        IN  \A k \in had :
                /\ sProducts'[k].current_price = ExtractPricing(raw).current_price
                /\ sProducts'[k].is_available = raw.availability
                /\ sProducts'[k].name = CleanText(raw.name)
                /\ sProducts'[k].data_quality_score = CalculateQualityScore(raw).score
                /\ sProducts'[k].scrape_count = sProducts[k].scrape_count + 1
                /\ sProducts'[k].last_scraped > sProducts[k].last_scraped
                /\ sProducts'[k].id = sProducts[k].id
                /\ sProducts'[k].created_at = sProducts[k].created_at]_vars

\* ------------------------------------------------------ quality score (C15)
\* The checks of the quality score a raw record passes, as the claim lists
\* them.
ChecksPassed(raw) ==
    Cardinality({c \in 1..6 :
        \/ c = 1 /\ raw.name # <<>> /\ Len(raw.name) > 5
        \/ c = 2 /\ raw.price_kind \in {"num", "numstr"} /\ raw.price > 0
        \/ c = 3 /\ raw.url
        \/ c = 4 /\ raw.image_url
        \/ c = 5 /\ raw.brand
        \/ c = 6 /\ raw.description})

\* C15: computing the quality score never fails and changes nothing; the
\* score is the number of passed checks over 6, to two decimals, so it lies
\* between 0 and 1 and is 1 exactly when all six checks pass.
C15_QualityScore ==
    [][step' = "out" =>
        /\ ~res'.raised
        /\ res'.score = Round2(ChecksPassed(arg), 6)
        /\ res'.score >= 0 /\ res'.score <= 100
        /\ res'.score = 100 <=> ChecksPassed(arg) = 6
        /\ arg' = arg
        /\ etlVars' = etlVars]_vars

\* ----------------------------------------------------- normalized name (C16)
\* C16: the normalized name of a name is its own normalized name; it has no
\* capital, none of the noise words, no whitespace at either end and no
\* two whitespace characters in a row.
C16_NormalizeIdempotent ==
    step = "out" =>
        /\ NormalizeName(res) = res
        /\ \A i \in 1..Len(res) : \A c \in 1..26 : res[i] # UpperChars[c]
        /\ \A k \in 1..Len(NoiseWords) : ~Contains(res, NoiseWords[k])
        /\ res # <<>> => res[1] \notin Whitespace /\ res[Len(res)] \notin Whitespace
        /\ \A i \in 1..(Len(res) - 1) :
              ~(res[i] \in Whitespace /\ res[i + 1] \in Whitespace)

\* A name with a capital, a noise word and whitespace has been normalized to
\* something else, which is not empty.
C16_Witness ==
    /\ step = "out"
    /\ arg = <<"A", "u7684", "\t">>
    /\ res = <<"a">>

\* ---------------------------------------------------------- similarity (C18)
\* The boosts as the claim states them, in tenths: 3 when both brands are
\* non-empty and equal ignoring case; 1 when both prices are there (a price
\* above 0) and the smaller is more than 0.7 of the larger.
BrandBoost(a, b) ==
    IF Len(a.brand) > 0 /\ Len(b.brand) > 0 /\ Upper(a.brand) = Upper(b.brand)
    THEN 3 ELSE 0

PriceBoost(a, b) ==
    LET lo == IF a.current_price <= b.current_price THEN a.current_price ELSE b.current_price
        hi == IF a.current_price <= b.current_price THEN b.current_price ELSE a.current_price
    IN  IF lo > 0 /\ 10 * lo > 7 * hi THEN 1 ELSE 0

\* C18: the similarity of two entries is the name similarity plus the two
\* boosts, at most 1; so with equal brands, near prices and a name
\* similarity below 0.3 it is below 0.7 and the matcher adds no edge.
C18_SimilarityFormula ==
    step = "out" =>
        LET a == arg[1]
            b == arg[2]
            name == Ratio(a.normalized_name, b.normalized_name)
            boosts == BrandBoost(a, b) + PriceBoost(a, b)
            sum == Frac(10 * name.num + boosts * name.den, 10 * name.den)
        IN  /\ FracEq(res.similarity, IF FracGeq(sum, Frac(1, 1)) THEN Frac(1, 1) ELSE sum)
            /\ FracGeq(res.similarity, Frac(0, 1))
            /\ (boosts = 4 /\ FracLess(name, Frac(3, 10)))
                  => FracLess(res.similarity, Frac(7, 10)) /\ res.edges = <<>>

\* Two products of one brand, with prices 71 and 100 and the names 'hp 15'
\* and 'lg tv' (name similarity 0.2): the similarity is 0.6 and no edge is
\* added.
C18_Witness ==
    /\ step = "out"
    /\ arg = << SimProduct(1, NameHp15, <<"H","p">>, 71),
                SimProduct(2, NameLgTv, <<"H","p">>, 100) >>
    /\ FracEq(res.similarity, Frac(6, 10))
    /\ res.edges = <<>>

\* ------------------------------------------------------ the loader (C14, C19)
\* The indices of a sequence that satisfy Test, in order.
IndicesWhere(seq, Test(_)) ==
    SelectSeq([i \in 1..Len(seq) |-> i], LAMBDA i : Test(seq[i]))

\* C14: load_products does not raise: it returns the counts and the three
\* error lists.  Each record that failed transformation is in the
\* transformation errors, each that failed validation in the validation
\* errors, and when validated records were not stored there is a database
\* error and they are the failed count; no list has another entry.
C14_LoadNeverRaises ==
    (step = "out" /\ res.kind = "load") =>
        LET survivors == SelectSeq(arg, LAMBDA r : ~TransformFails(r))
            validated == SelectSeq(survivors, LAMBDA r : ~ValidationFails(r))
            dropped == Len(validated) - res.success_count
        IN  /\ ~res.raised
            /\ res.transformation_errors = IndicesWhere(arg, TransformFails)
            /\ res.validation_errors = IndicesWhere(survivors, ValidationFails)
            /\ dropped >= 0
            /\ dropped > 0 => Len(res.database_errors) = 1 /\ res.failed_count = dropped
            /\ dropped = 0 => res.database_errors = <<>> /\ res.failed_count = 0
            /\ res.duplicate_count = 0

\* A batch of three has been loaded: one record failed transformation, one
\* validation, one was not stored; each list has its one entry.
C14_Witness ==
    /\ step = "out"
    /\ res.kind = "load"
    /\ Len(arg) = 3
    /\ Len(res.transformation_errors) = 1
    /\ Len(res.validation_errors) = 1
    /\ Len(res.database_errors) = 1
    /\ res.failed_count = 1

\* C19: save_products on n validated records returns n, and each record's
\* platform and product id then have a catalog entry and a price history
\* that get_price_history returns.
C19_SaveProductsCount ==
    (step = "out" /\ res.kind = "save") =>
        /\ ~res.raised
        /\ res.returned = Len(arg)
        /\ \A i \in 1..Len(arg) :
              /\ \E k \in 1..Len(res.stored) :
                    res.stored[k] = << arg[i].platform, arg[i].product_id >>
              /\ ~res.histories[i].raised
              /\ res.histories[i].rows # <<>>

\* ------------------------------------------------------------- edges (C21)
\* C21: an edge the matcher creates has a similarity score from 0.7 to 1,
\* the type exact when the score is 0.9 or more and similar when it is
\* less, is not verified and is active; a pair whose similarity is below
\* 0.7 gets no edge.
C21_EdgeShape ==
    step = "out" =>
        /\ \A k \in 1..Len(res.edges) :
              LET score == res.edges[k].similarity_score
              IN  /\ FracEq(score, res.similarity)
                  /\ score.num * 10 >= 7 * score.den
                  /\ score.num <= score.den
                  /\ res.edges[k].match_type \in {"exact", "similar"}
                  /\ res.edges[k].match_type = "exact" <=> score.num * 10 >= 9 * score.den
                  /\ res.edges[k].is_verified = FALSE
                  /\ res.edges[k].is_active = TRUE
        /\ res.similarity.num * 10 < 7 * res.similarity.den => res.edges = <<>>

\* Two products of one brand and the names 'laptop' and 'lg tv' (name
\* similarity 4/11) have got one edge of the type similar.
C21_Witness ==
    /\ step = "out"
    /\ Len(res.edges) = 1
    /\ res.edges[1].match_type = "similar"
    /\ arg[1].normalized_name = NameLaptop
    /\ arg[2].normalized_name = NameLgTv

\* --------------------------------------------------------- validation (C22)
\* C22: the validator raises nothing; the records it rejects are named by
\* their index, once each, with the reason; all the others are accepted, in
\* the order they came in; accepted and rejected together are all records.
C22_ValidationPerRecord ==
    (step = "out" /\ res.kind = "validate") =>
        LET rejected == {res.errors[j] : j \in 1..Len(res.errors)}
            kept == SelectSeq([i \in 1..Len(arg) |-> i], LAMBDA i : i \notin rejected)
        IN  /\ ~res.raised
            /\ Len(res.products) + Len(res.errors) = Len(arg)
            /\ Cardinality(rejected) = Len(res.errors)
            /\ \A i \in rejected : i \in 1..Len(arg) /\ ValidationFails(arg[i])
            /\ Len(res.products) = Len(kept)
            /\ \A k \in 1..Len(kept) :
                  /\ ~ValidationFails(arg[kept[k]])
                  /\ res.products[k].product_id = arg[kept[k]].product_id

\* Three records have been validated: the second was rejected, the first
\* and the third, two different records, were accepted in that order.
C22_Witness ==
    /\ step = "out"
    /\ res.kind = "validate"
    /\ Len(arg) = 3
    /\ res.errors = << 2 >>
    /\ Len(res.products) = 2
    /\ res.products[1].product_id = "B1"
    /\ res.products[2].product_id = "A1"

\* ---------------------------------------------------------- platforms (C29)
\* C29: a record whose platform is, in lower case, a supported identifier
\* (and that is valid otherwise) is accepted by the schema validator, which
\* gives it the lower-case identifier, and by the upsert step; a record of
\* another platform is rejected by both and the upsert step writes nothing.
C29_PlatformSupport ==
    (step = "out" /\ res.kind = "validate") =>
        \A i \in 1..Len(arg) :
            LET r == arg[i]
                supported == Lower(r.platform) \in AllowedPlatforms
                valid == ~ValidationFails([r EXCEPT !.platform = PChome])
                rejected == \E j \in 1..Len(res.errors) : res.errors[j] = i
                upsert == ProcessSingleProduct(<<>>, TRUE, 1, r, 1)
            IN  /\ (supported /\ valid)
                      => /\ ~rejected
                         /\ \E k \in 1..Len(res.products) :
                               /\ res.products[k].product_id = r.product_id
                               /\ res.products[k].platform = Lower(r.platform)
                         /\ upsert.kind = "insert"
                /\ ~supported
                      => /\ rejected
                         /\ upsert.kind = "none"
                         /\ upsert.products = <<>>
                         /\ upsert.history = <<>>

\* --------------------------------------------------------- short names (C23)
\* C23: a record whose cleaned name has fewer than 3 characters is passed
\* over: no product is added or changed, no history row added, the record
\* is not among the processed, nothing is raised (the session stays as it
\* was) and the loop goes on.
C23_ShortNameRejected ==
    [][(pc = "loop" /\ Len(batch') = Len(batch) + 1
          /\ Len(CleanText(Last(batch').name)) < 3)
        => /\ sProducts' = sProducts
           /\ sHistory' = sHistory
           /\ sSessions' = sSessions
           /\ processed' = processed
           /\ active' = active
           /\ pc' = "loop"]_vars

\* A run has returned whose batch was a record with the cleaned name 'ab'
\* and then a valid record: only the second was processed and stored.
C23_Witness ==
    /\ pc = "done"
    /\ Len(batch) = 2
    /\ Len(CleanText(batch[1].name)) = 2
    /\ RawAccepted(batch[2])
    /\ processed = << 1 >>
    /\ Len(dbProducts) = 1
    /\ Len(dbHistory) = 1

\* ------------------------------------------------------ price extraction (C24)
\* C24: a record that is valid but for its price is processed whatever the
\* price: the entry's current price is 0 when the raw price is missing or
\* no number, is never negative, and the original price is the current
\* price when the record has none.
C24_PriceExtraction ==
    [][(/\ pc = "loop" /\ active
        /\ Len(batch') = Len(batch) + 1
        /\ Len(CleanText(Last(batch').name)) >= 3
        /\ PlatformCacheGet(Lower(Last(batch').platform)) # 0
        /\ Last(batch').product_id # PyNone)
        => /\ Len(processed') = Len(processed) + 1
           /\ LET raw == Last(batch')
                  entry == sProducts'[Last(processed')]
              IN  /\ entry.current_price >= 0
                  /\ raw.price_kind \in {"missing", "invalid"} => entry.current_price = 0
                  /\ raw.orig_kind = "missing"
                        => entry.original_price = entry.current_price]_vars

\* ------------------------------------------------------ storage failure (C25)
\* C25: when the write of one record fails on a constraint (its flush
\* raises), only that record is lost: what the records before it wrote
\* stays in the session, they stay processed, and the session stays usable
\* for the records after it and for the commit.
C25_StorageFailurePerRecord ==
    [][(/\ pc = "loop" /\ active
        /\ Len(batch') = Len(batch) + 1
        /\ ProcessSingleProduct(sProducts, active, etlSessionId, Last(batch'), obs + 1).kind
              = "flushfail")
        => /\ sProducts' = sProducts
           /\ sHistory' = sHistory
           /\ sSessions' = sSessions
           /\ processed' = processed
           /\ active']_vars

\* ---------------------------------------------------------- session ids (C26)
\* C26: every call of process_scraper_results, also a second one on the
\* same ProductETL object, creates one session whose id no stored session
\* has; a history row added in a run carries that run's session id.
C26_FreshSessionId ==
    [][ /\ runs' = runs + 1
          => /\ pc' = "loop"
             /\ Len(sSessions') = Len(dbSessions) + 1
             /\ \A k \in 1..Len(dbSessions) :
                   dbSessions[k].session_id # Last(sSessions').session_id
        /\ Len(sHistory') = Len(sHistory) + 1
          => Last(sHistory').scrape_session_id = Last(sSessions').session_id ]_vars

\* --------------------------------------------------------- success rate (C27)
\* The records of a batch that load_products has stored: those that pass
\* transformation and validation, when save_products returns.
StoredOf(raws) ==
    LET validated == ValidateProducts(TransformProductBatch(raws).products).products
        saved == SaveProducts(validated)
    IN  IF saved.raised THEN 0 ELSE saved.saved

C28_CleanText ==
    step = "out" =>
        /\ Len(res) <= 500
        /\ \A k \in 1..Len(res) : AllowedChar(res[k])
        /\ res # <<>> => res[1] \notin Whitespace /\ res[Len(res)] \notin Whitespace
        /\ \A k \in 1..(Len(res) - 1) :
              ~(res[k] \in Whitespace /\ res[k + 1] \in Whitespace)
        /\ (\A k \in 1..Len(arg) : arg[k] \in Whitespace) => res = <<>>
        /\ CleanText(res) = res

====
